---- MODULE Spec2Model ----
(***************************************************************************)
(* A model of the referral-codes library (src/src/lib.rs): Charset,        *)
(* Pattern, Config, generate_one, is_feasible and generate.                *)
(*                                                                         *)
(* Characters are Unicode scalar values (integers), a String is a sequence *)
(* of characters.  A usize is a little-endian sequence of 16-bit limbs     *)
(* without trailing zero limbs (<< >> is 0), so that 64-bit values and the *)
(* unbounded "true" power can be computed with small integers.  The target *)
(* has 64-bit pointers (usize = u64).                                      *)
(***************************************************************************)
EXTENDS Integers, Sequences, FiniteSets, TLC

\* ------------------------------------------------------------------ bounds
\* Longest Custom pool, in characters.
MaxPool == 2
\* Longest template string, and largest ordinary Length(n).
MaxLen == 2
\* Largest requested count.
MaxCount == 2
\* The generation loop is explored when (fillings of the template) * count
\* stays within MaxWork.
MaxWork == 62

\* The wildcard marker '#'.
Hash == 35

\* Characters a Custom pool is built from: 'a', 'b' and the two-byte 'é'.
PoolAlphabet == {97, 98, 233}
\* Characters a template is built from: '#' and 'A'.
TemplateAlphabet == {Hash, 65}

\* --------------------------------------------------------- usize arithmetic
LimbBase == 65536
\* usize is 64 bits, u32 is 32 bits.
UsizeLimbs == 4
U32Limbs == 2

RECURSIVE ToLimbs(_)
ToLimbs(n) ==
    IF n = 0 THEN << >> ELSE <<n % LimbBase>> \o ToLimbs(n \div LimbBase)

RECURSIVE ToNat(_)
ToNat(x) ==
    IF x = << >> THEN 0 ELSE Head(x) + LimbBase * ToNat(Tail(x))

RECURSIVE Norm(_)
Norm(x) ==
    IF x = << >> THEN << >>
    ELSE IF x[Len(x)] = 0 THEN Norm(SubSeq(x, 1, Len(x) - 1))
    ELSE x

RECURSIVE MulSmall(_, _, _)
MulSmall(x, m, carry) ==
    IF x = << >> THEN ToLimbs(carry)
    ELSE LET t == Head(x) * m + carry
         IN  <<t % LimbBase>> \o MulSmall(Tail(x), m, t \div LimbBase)

\* acc * base^exp as an unbounded natural number, by repeated multiplication.
\* (The test on Len(a) makes the evaluator compute a before the recursion.)
RECURSIVE PowAcc(_, _, _)
PowAcc(acc, base, exp) ==
    IF exp = 0 THEN acc
    ELSE LET a == Norm(MulSmall(acc, base, 0))
         IN  IF Len(a) >= 0 THEN PowAcc(a, base, exp - 1) ELSE << >>

\* base^exp as an unbounded natural number; 0^0 = 1.
PowLimbs(base, exp) == PowAcc(<<1>>, base, exp)

\* x >= y for normalized limb sequences.
RECURSIVE GeqLimbs(_, _)
GeqLimbs(x, y) ==
    IF Len(x) # Len(y) THEN Len(x) > Len(y)
    ELSE IF x = << >> THEN TRUE
    ELSE IF x[Len(x)] # y[Len(y)] THEN x[Len(x)] > y[Len(y)]
    ELSE GeqLimbs(SubSeq(x, 1, Len(x) - 1), SubSeq(y, 1, Len(y) - 1))

\* The low 64 bits of x: what a wrapping multiplication keeps.
WrapUsize(x) ==
    IF Len(x) <= UsizeLimbs THEN x ELSE Norm(SubSeq(x, 1, UsizeLimbs))

\* u32::try_from(usize): Err when the value needs more than 32 bits.
U32TryFrom(x) ==
    IF Len(x) <= U32Limbs THEN [ok |-> TRUE, val |-> x]
    ELSE [ok |-> FALSE, val |-> << >>]

\* A plausible slip: 0.pow(n) taken to be 0 for every n, n = 0 included.
PowZeroBase(base, exp, checks) ==
    LET p == PowLimbs(base, ToNat(exp))
    IN  IF base = 0 THEN [panic |-> FALSE, val |-> << >>]
        ELSE IF Len(p) <= UsizeLimbs THEN [panic |-> FALSE, val |-> p]
        ELSE IF checks THEN [panic |-> TRUE, val |-> << >>]
        ELSE [panic |-> FALSE, val |-> WrapUsize(p)]

\* usize::pow(base, exp): a panic on overflow when the build checks overflow
\* (debug profile), the value modulo 2^64 otherwise (release profile).
pow(base, exp, checks) ==
    LET p == PowLimbs(base, ToNat(exp))
    IN  IF Len(p) <= UsizeLimbs THEN [panic |-> FALSE, val |-> p]
        ELSE IF checks THEN [panic |-> TRUE, val |-> << >>]
        ELSE [panic |-> FALSE, val |-> WrapUsize(p)]

\* ------------------------------------------------------------------ Charset
Digits == [i \in 1..10 |-> 47 + i]
LowerCase == [i \in 1..26 |-> 96 + i]
UpperCase == [i \in 1..26 |-> 64 + i]

Numeric == [kind |-> "Numeric", s |-> << >>]
Alphabetic == [kind |-> "Alphabetic", s |-> << >>]
Alphanumeric == [kind |-> "Alphanumeric", s |-> << >>]
Custom(s) == [kind |-> "Custom", s |-> s]

\* char::len_utf8
len_utf8(c) ==
    IF c < 128 THEN 1 ELSE IF c < 2048 THEN 2 ELSE IF c < 65536 THEN 3 ELSE 4

\* String::len: the length in bytes of the UTF-8 encoding.
RECURSIVE str_len(_)
str_len(s) ==
    IF s = << >> THEN 0 ELSE len_utf8(Head(s)) + str_len(Tail(s))

\* Charset::len
len(cs) ==
    CASE cs.kind = "Numeric" -> 10
      [] cs.kind = "Alphabetic" -> 52
      [] cs.kind = "Alphanumeric" -> 62
      [] cs.kind = "Custom" -> str_len(cs.s)

\* The characters Charset::sample chooses among, in the order of .chars().
chars(cs) ==
    CASE cs.kind = "Numeric" -> Digits
      [] cs.kind = "Alphabetic" -> LowerCase \o UpperCase
      [] cs.kind = "Alphanumeric" -> LowerCase \o UpperCase \o Digits
      [] cs.kind = "Custom" -> cs.s

\* A slip in the pools: Alphabetic drawn from the alphanumeric literal.
SampleWrongPool(cs) ==
    LET cc == IF cs.kind = "Alphabetic" THEN LowerCase \o UpperCase \o Digits
              ELSE chars(cs)
    IN  IF cc = << >> THEN {[some |-> FALSE, c |-> 0]}
        ELSE {[some |-> TRUE, c |-> cc[i]] : i \in 1..Len(cc)}

\* Charset::sample: every value .chars().choose(rng) can return; None for an
\* empty iterator, which the following unwrap() turns into a panic.
sample(cs) ==
    IF chars(cs) = << >> THEN {[some |-> FALSE, c |-> 0]}
    ELSE {[some |-> TRUE, c |-> chars(cs)[i]] : i \in 1..Len(chars(cs))}

\* ------------------------------------------------------------------ Pattern
PatLength(n) == [kind |-> "Length", n |-> n, s |-> << >>]
PatPattern(s) == [kind |-> "Pattern", n |-> << >>, s |-> s]

RECURSIVE CountHash(_)
CountHash(s) ==
    IF s = << >> THEN 0
    ELSE (IF Head(s) = Hash THEN 1 ELSE 0) + CountHash(Tail(s))

\* Pattern::size, a usize.
size(p) ==
    IF p.kind = "Length" THEN p.n ELSE ToLimbs(CountHash(p.s))

\* Pattern::pattern
pattern(p) ==
    IF p.kind = "Length" THEN [i \in 1..ToNat(p.n) |-> Hash] ELSE p.s

\* ------------------------------------------------------------------- Config
Config(p, n, cs) == [pattern |-> p, count |-> n, charset |-> cs]

\* A slip in the scan: a literal character of the template is dropped.
RECURSIVE GenerateOneDropsLiterals(_, _, _)
GenerateOneDropsLiterals(tpl, cs, result) ==
    IF tpl = << >> THEN {[kind |-> "Str", val |-> result, drew |-> FALSE]}
    ELSE IF Head(tpl) = Hash
    THEN UNION {
           IF r.some
           THEN {[o EXCEPT !.drew = TRUE] :
                   o \in GenerateOneDropsLiterals(Tail(tpl), cs, Append(result, r.c))}
           ELSE {[kind |-> "Panic", val |-> << >>, drew |-> TRUE]} :
           r \in sample(cs)}
    ELSE GenerateOneDropsLiterals(Tail(tpl), cs, result)

\* The scan of generate_one over the rest tpl of the template, result being
\* the string built so far: every outcome the random source allows.  An
\* outcome is the finished string, or the panic of unwrap() on None; drew
\* tells whether Charset::sample was called.
RECURSIVE scan(_, _, _)
scan(tpl, cs, result) ==
    IF tpl = << >> THEN {[kind |-> "Str", val |-> result, drew |-> FALSE]}
    ELSE IF Head(tpl) = Hash
    THEN UNION {
           IF r.some
           THEN {[o EXCEPT !.drew = TRUE] :
                   o \in scan(Tail(tpl), cs, Append(result, r.c))}
           ELSE {[kind |-> "Panic", val |-> << >>, drew |-> TRUE]} :
           r \in sample(cs)}
    ELSE scan(Tail(tpl), cs, Append(result, Head(tpl)))

generate_one(config) == scan(pattern(config.pattern), config.charset, << >>)

\* is_feasible: "feasible" for true, "infeasible" for false, "panic" when
\* u32::try_from(..).unwrap() or the power panics.
is_feasible(config, checks) ==
    LET e == U32TryFrom(size(config.pattern))
    IN  IF ~e.ok THEN "panic"
        ELSE LET p == pow(len(config.charset), e.val, checks)
             IN  IF p.panic THEN "panic"
                 ELSE IF GeqLimbs(p.val, ToLimbs(config.count)) THEN "feasible"
                 ELSE "infeasible"

\* A slip in the loop condition: the loop stops one code short.
LoopContinuesOffByOne(n, count) == n + 1 < count

\* The condition of the while loop of generate.
loop_continues(n, count) == n < count

\* codes.into_iter().collect(): the elements of the HashSet in any order.
collect(S) ==
    {f \in [1..Cardinality(S) -> S] :
        \A i, j \in 1..Cardinality(S) : f[i] = f[j] => i = j}

\* ------------------------------------------------------------------- inputs
Strings(A, n) == UNION {[1..k -> A] : k \in 0..n}

\* Lengths beyond MaxLen: 64 (every even cardinality overflows 64 bits) and
\* 2^32 (does not fit a u32).
BigLengths == {ToLimbs(64), <<0, 0, 1>>}

Patterns ==
    {PatLength(ToLimbs(n)) : n \in 0..MaxLen}
    \cup {PatLength(n) : n \in BigLengths}
    \cup {PatPattern(s) : s \in Strings(TemplateAlphabet, MaxLen)}

Charsets ==
    {Numeric, Alphabetic, Alphanumeric}
    \cup {Custom(s) : s \in Strings(PoolAlphabet, MaxPool)}

Configs ==
    {Config(p, n, cs) : p \in Patterns, n \in 0..MaxCount, cs \in Charsets}

RECURSIVE IntPow(_, _)
IntPow(b, e) == IF e = 0 THEN 1 ELSE b * IntPow(b, e - 1)

\* The configurations whose run is explored: when strings are generated, the
\* template is short and the fillings times the count stay within MaxWork.
Explorable(cfg, checks, e) ==
    LET runs == IF e = "generate_one" THEN TRUE
                ELSE cfg.count > 0 /\ is_feasible(cfg, checks) = "feasible"
        n == IF e = "generate_one" THEN 1 ELSE cfg.count
        sz == size(cfg.pattern)
    IN  runs => /\ Len(sz) <= 1
                /\ ToNat(sz) <= MaxLen
                /\ IntPow(Len(chars(cfg.charset)), ToNat(sz)) * n <= MaxWork

\* -------------------------------------------------------------------- state
VARIABLES
    config,           \* the Config passed to the entry point
    overflow_checks,  \* whether the build panics on arithmetic overflow
    entry,            \* the function called: "generate" or "generate_one"
    pc,               \* "start", "loop" (in the while loop), "done"
    verdict,          \* what is_feasible returned: "none" before it ran
    codes,            \* the HashSet of generate
    sampled,          \* whether Charset::sample has been called
    outcome           \* what the call returned: kind "none" while running

vars == <<config, overflow_checks, entry, pc, verdict, codes, sampled, outcome>>

NoOutcome == [kind |-> "none", val |-> << >>]
Panic == [kind |-> "Panic", val |-> << >>]
Err == [kind |-> "Err", val |-> << >>]

Init ==
    /\ config \in Configs
    /\ overflow_checks \in BOOLEAN
    /\ entry \in {"generate", "generate_one"}
    /\ Explorable(config, overflow_checks, entry)
    /\ pc = "start"
    /\ verdict = "none"
    /\ codes = {}
    /\ sampled = FALSE
    /\ outcome = NoOutcome

\* generate, line 276: is_feasible panics.
CheckPanics ==
    /\ pc = "start" /\ entry = "generate"
    /\ is_feasible(config, overflow_checks) = "panic"
    /\ verdict' = "panic"
    /\ pc' = "done"
    /\ outcome' = Panic
    /\ UNCHANGED <<config, overflow_checks, entry, codes, sampled>>

\* A slip in the order: a first candidate is rendered before the check.
CheckFailsAfterSampling ==
    /\ pc = "start" /\ entry = "generate"
    /\ is_feasible(config, overflow_checks) = "infeasible"
    /\ verdict' = "infeasible"
    /\ pc' = "done"
    /\ outcome' = Err
    /\ sampled' = (size(config.pattern) # << >>)
    /\ UNCHANGED <<config, overflow_checks, entry, codes>>

\* generate, lines 276-278: not feasible, Err(NonFeasibleConfig).
CheckFails ==
    /\ pc = "start" /\ entry = "generate"
    /\ is_feasible(config, overflow_checks) = "infeasible"
    /\ verdict' = "infeasible"
    /\ pc' = "done"
    /\ outcome' = Err
    /\ UNCHANGED <<config, overflow_checks, entry, codes, sampled>>

\* generate, lines 276-280: feasible, the empty HashSet is created.
CheckPasses ==
    /\ pc = "start" /\ entry = "generate"
    /\ is_feasible(config, overflow_checks) = "feasible"
    /\ verdict' = "feasible"
    /\ pc' = "loop"
    /\ codes' = {}
    /\ UNCHANGED <<config, overflow_checks, entry, sampled, outcome>>

\* generate, lines 282-284: one iteration of the loop.
LoopIterate ==
    /\ pc = "loop"
    /\ loop_continues(Cardinality(codes), config.count)
    /\ \E o \in generate_one(config) :
          /\ sampled' = (sampled \/ o.drew)
          /\ IF o.kind = "Panic"
             THEN pc' = "done" /\ outcome' = Panic /\ codes' = codes
             ELSE pc' = pc /\ outcome' = outcome /\ codes' = codes \cup {o.val}
    /\ UNCHANGED <<config, overflow_checks, entry, verdict>>

\* generate, lines 282 and 286: the loop ends, Ok(codes collected).
LoopExit ==
    /\ pc = "loop"
    /\ ~loop_continues(Cardinality(codes), config.count)
    /\ \E v \in collect(codes) : outcome' = [kind |-> "Ok", val |-> v]
    /\ pc' = "done"
    /\ UNCHANGED <<config, overflow_checks, entry, verdict, codes, sampled>>

\* A call of generate_one, lines 213-227.
CallGenerateOne ==
    /\ pc = "start" /\ entry = "generate_one"
    /\ \E o \in generate_one(config) :
          /\ sampled' = o.drew
          /\ outcome' = [kind |-> o.kind, val |-> o.val]
    /\ pc' = "done"
    /\ UNCHANGED <<config, overflow_checks, entry, verdict, codes>>

Next ==
    \/ CheckPanics
    \/ CheckFails
    \/ CheckPasses
    \/ LoopIterate
    \/ LoopExit
    \/ CallGenerateOne

Spec == Init /\ [][Next]_vars

\* ------------------------------------------------------------------ claims
\* The characters of the pool of a charset, as a set.
PoolSet(cs) == {chars(cs)[i] : i \in 1..Len(chars(cs))}

\* The strings generate_one can return for cfg.
Producible(cfg) == {o.val : o \in {x \in generate_one(cfg) : x.kind = "Str"}}

\* Pattern::size is not zero.
HasWildcard(cfg) == size(cfg.pattern) # << >>

\* len(charset) ^ size(pattern) < count, over the natural numbers.  An exponent
\* of 2^16 or more makes every base >= 2 exceed any usize.
PowerLess(cfg) ==
    LET b == len(cfg.charset)
        sz == size(cfg.pattern)
    IN  IF Len(sz) <= 1
        THEN ~GeqLimbs(PowLimbs(b, ToNat(sz)), ToLimbs(cfg.count))
        ELSE (b = 0 /\ cfg.count > 0) \/ (b = 1 /\ cfg.count > 1)

\* s has the structure of the template of cfg: the same number of characters,
\* the template's character at a literal position, a pool character at a '#'.
Matches(cfg, s) ==
    LET tpl == pattern(cfg.pattern)
    IN  /\ Len(s) = Len(tpl)
        /\ \A i \in 1..Len(tpl) :
             IF tpl[i] = Hash THEN s[i] \in PoolSet(cfg.charset)
             ELSE s[i] = tpl[i]
        /\ cfg.pattern.kind = "Length" => Len(s) = ToNat(cfg.pattern.n)

\* C1: whenever generate returns Ok, the returned sequence has exactly
\* config.count entries and no two of them are equal.
C1_CountAndDistinct ==
    (entry = "generate" /\ outcome.kind = "Ok") =>
        /\ Len(outcome.val) = config.count
        /\ \A i, j \in 1..Len(outcome.val) :
             i # j => outcome.val[i] # outcome.val[j]

\* generate returned Ok with two codes.
C1_Witness ==
    /\ entry = "generate" /\ outcome.kind = "Ok"
    /\ config.count >= 2 /\ Len(outcome.val) >= 2

\* C2: generate returns NonFeasibleConfig exactly when the true power
\* len ^ size is less than count.
C2_ErrorExactlyWhenPowerLess ==
    (entry = "generate" /\ pc = "done") =>
        ((outcome.kind = "Err") <=> PowerLess(config))

\* C3: whenever the generation loop is entered, generate_one can produce at
\* least config.count distinct strings (so that fair sampling ends the loop).
C3_LoopCanFinish ==
    (pc = "loop" /\ config.count > 0) =>
        Cardinality(Producible(config)) >= config.count

\* C4: generate_one always returns a string, never fails or aborts.
C4_GenerateOneSucceeds ==
    (entry = "generate_one" /\ pc = "done") => outcome.kind = "Str"

\* C5: every string generate_one produced, accepted by generate or returned
\* by either has the structure of the template: same length, the literal
\* characters in place, pool characters at the '#' positions.
C5_Structure ==
    /\ \A s \in codes : Matches(config, s)
    /\ outcome.kind = "Str" => Matches(config, outcome.val)
    /\ outcome.kind = "Ok" =>
         \A i \in 1..Len(outcome.val) : Matches(config, outcome.val[i])

\* generate returned two codes for a template with a literal and a '#'.
C5_Witness ==
    /\ outcome.kind = "Ok" /\ Len(outcome.val) = 2
    /\ config.pattern = PatPattern(<<65, Hash>>)

\* C6: Charset::len is the number of distinct characters sampling can return.
C6_LenIsDistinctCount ==
    verdict # "none" => len(config.charset) = Cardinality(PoolSet(config.charset))

\* C7: the feasibility verdict is the verdict on the true power: overflow
\* gives no wrong verdict and no abort.
C7_VerdictOnTruePower ==
    verdict # "none" =>
        verdict = (IF PowerLess(config) THEN "infeasible" ELSE "feasible")

\* C8: in generate nothing is sampled before the feasibility check has
\* passed; a failed check returns the error with no sample drawn and no code
\* produced; Ok or Err is decided by the check alone, not by the samples.
C8_CheckBeforeSampling ==
    entry = "generate" =>
        /\ sampled => verdict = "feasible"
        /\ verdict = "infeasible" =>
             outcome = Err /\ ~sampled /\ codes = {}
        /\ outcome.kind = "Err" => verdict = "infeasible"
        /\ outcome.kind = "Ok" => verdict = "feasible"
        /\ outcome.kind \in {"Ok", "Err"} =>
             ((outcome.kind = "Ok")
                <=> (is_feasible(config, overflow_checks) = "feasible"))

\* The check failed for a pattern with wildcards: Err, nothing sampled.
C8_Witness ==
    /\ entry = "generate" /\ outcome = Err
    /\ HasWildcard(config) /\ len(config.charset) > 0 /\ ~sampled

\* C9: with a charset of cardinality 0 and a pattern with a wildcard,
\* generate returns NonFeasibleConfig for count >= 1 and the empty result for
\* count = 0, without a call of sample.
C9_EmptyPoolNeverSampled ==
    (entry = "generate" /\ pc = "done"
       /\ len(config.charset) = 0 /\ HasWildcard(config)) =>
        /\ ~sampled
        /\ config.count >= 1 => outcome = Err
        /\ config.count = 0 => outcome = [kind |-> "Ok", val |-> << >>]

\* C10: for a pattern without wildcards, whatever the charset, generate with
\* count = 1 returns exactly the template string and with count > 1 fails
\* with NonFeasibleConfig.
C10_ZeroWildcards ==
    (entry = "generate" /\ ~HasWildcard(config)) =>
        /\ verdict # "panic"
        /\ (pc = "loop" /\ config.count = 1) =>
             codes \subseteq {pattern(config.pattern)}
        /\ (pc = "done" /\ config.count = 1) =>
             outcome = [kind |-> "Ok", val |-> <<pattern(config.pattern)>>]
        /\ (pc = "done" /\ config.count > 1) => outcome = Err

\* generate returned the template "AA" itself although the pool is empty.
C10_Witness ==
    /\ entry = "generate" /\ config.charset = Custom(<< >>)
    /\ config.pattern = PatPattern(<<65, 65>>) /\ config.count = 1
    /\ outcome = [kind |-> "Ok", val |-> << <<65, 65>> >>]

====
